---- MODULE Spec2Model ----
(***************************************************************************)
(* Audio Transcription Tool (src/main.py).                                 *)
(*                                                                         *)
(* The model has two kinds of thread: the interface thread (MainWindow,    *)
(* EnvironmentDialog and the slots connected to the Worker's signals) and  *)
(* the Worker threads (Worker.run).  A signal emitted by a Worker is a     *)
(* queued call into the interface thread: it is appended to the event      *)
(* queue of the interface thread and handled later, in order.              *)
(*                                                                         *)
(* The media engine, the object store and the recognition service are      *)
(* external: every call into them either returns or raises, chosen         *)
(* nondeterministically.                                                   *)
(***************************************************************************)
EXTENDS Integers, Sequences, FiniteSets, TLC

(***************************************************************************)
(* Bounds of the model.                                                    *)
(***************************************************************************)
\* Number of Worker thread objects that can exist at the same time.
MaxThreads == 2

Slots == 1..MaxThreads

(***************************************************************************)
(* Text helpers.  Extensions and addresses are sequences of characters so  *)
(* that lower-casing and pattern matching are computed, not assumed.       *)
(***************************************************************************)
UpperToLower ==
    [c \in {"A", "C", "F", "I", "K", "L", "M", "O", "P", "T", "V", "W", "X"} |->
        CASE c = "A" -> "a" [] c = "C" -> "c" [] c = "F" -> "f" [] c = "I" -> "i"
          [] c = "K" -> "k" [] c = "L" -> "l" [] c = "M" -> "m" [] c = "O" -> "o"
          [] c = "P" -> "p" [] c = "T" -> "t" [] c = "V" -> "v" [] c = "W" -> "w"
          [] c = "X" -> "x"]

LowerChar(c) == IF c \in DOMAIN UpperToLower THEN UpperToLower[c] ELSE c

\* str.lower()
Lower(s) == [i \in 1..Len(s) |-> LowerChar(s[i])]

video_extensions ==
    { <<".", "m", "p", "4">>, <<".", "m", "o", "v">>, <<".", "a", "v", "i">>,
      <<".", "m", "k", "v">>, <<".", "f", "l", "v">>, <<".", "w", "m", "v">> }

audio_extensions ==
    { <<".", "m", "p", "3">>, <<".", "w", "a", "v">>, <<".", "f", "l", "a", "c">>,
      <<".", "o", "g", "g">>, <<".", "a", "a", "c">>, <<".", "m", "4", "a">> }

\* Variant of ClassifyExt: the final else is missing and whatever is not a video
\* is opened as audio.
ClassifyExtNoElse(ext) == IF ext \in video_extensions THEN "video" ELSE "audio"

\* The branch of the if / elif / else over the lower-cased extension.
ClassifyExt(ext) ==
    IF ext \in video_extensions THEN "video"
    ELSE IF ext \in audio_extensions THEN "audio"
    ELSE "unsupported"

(***************************************************************************)
(* The files of the local disk.                                            *)
(***************************************************************************)
\* A path as os.path.splitext sees it: the base and the extension.
NoPath == [base |-> "", ext |-> <<>>]

\* The media files the user can select; all of them exist on disk.
ExistingInputs ==
    { [base |-> "a", ext |-> <<".", "M", "P", "4">>],
      [base |-> "a", ext |-> <<".", "p", "d", "f">>] }

\* A path that names no file.
MissingInput == [base |-> "gone", ext |-> <<".", "m", "p", "3">>]

\* The texts the input line can hold.
InputTexts == ExistingInputs \cup {MissingInput, NoPath}

Bases == {p.base : p \in ExistingInputs}

TempPath(base) == base \o "_temp.wav"
OutPath(base) == base \o ".txt"

LocalPaths == {TempPath(b) : b \in Bases} \cup {OutPath(b) : b \in Bases}

\* Content of a file that does not exist, of a waveform file whose writing was
\* interrupted, and of a waveform file written to its end.
Absent == "<absent>"
Partial == "<partial>"
Complete == "<complete>"

\* Credential files: one that exists, one that was deleted since it was saved.
GoodCredential == "good.json"
GoneCredential == "gone.json"
ExistingCredentials == {GoodCredential}

\* os.path.exists(credential_path)
CredentialExists(path) == path \in ExistingCredentials

(***************************************************************************)
(* The process environment and env.txt.                                    *)
(***************************************************************************)
CredKey == "GOOGLE_APPLICATION_CREDENTIALS"
InKey == "GCS_INPUT_BUCKET"
OutKey == "GCS_OUTPUT_BUCKET"
EnvKeys == {CredKey, InKey, OutKey}

\* os.environ.get(key) of a key that is not set.
None == "<None>"
\* env.txt: whether it exists, and its lines.
NoFile == [exists |-> FALSE, lines |-> <<>>]
EnvFile(lines) == [exists |-> TRUE, lines |-> lines]

\* The texts the user can type into the bucket fields.
BucketTexts == {"my_bucket"}

\* An env.txt line KEY=VALUE, kept as the pair that split("=", 1) and strip give.
Line(key, value) == <<key, value>>

RECURSIVE LoadLines(_, _)
\* The loop of load_env: every KEY=VALUE line sets os.environ[KEY], in order.
LoadLines(lines, env) ==
    IF lines = <<>> THEN env
    ELSE LoadLines(Tail(lines), [env EXCEPT ![Head(lines)[1]] = Head(lines)[2]])

\* load_env(): leaves the environment alone when env.txt does not exist.
load_env(file, env) == IF file.exists THEN LoadLines(file.lines, env) ELSE env

\* The content save_settings formats from the three fields.
SettingsContent(creds, inb, outb) ==
    << Line(CredKey, creds), Line(InKey, inb), Line(OutKey, outb) >>

RECURSIVE FileValue(_, _, _)
\* The value EnvironmentDialog.__init__ reads for a key: that of the last line
\* starting with KEY=, the empty text when there is none.
FileValue(lines, key, found) ==
    IF lines = <<>> THEN found
    ELSE FileValue(Tail(lines), key,
                   IF Head(lines)[1] = key THEN Head(lines)[2] ELSE found)

DialogValue(file, key) == IF file.exists THEN FileValue(file.lines, key, "") ELSE ""

(***************************************************************************)
(* The notifications of a Worker: its three signals.                       *)
(***************************************************************************)
Progress(v) == [kind |-> "progress", val |-> v, text |-> ""]
Finished(msg) == [kind |-> "finished", val |-> 0, text |-> msg]
Error(msg) == [kind |-> "error", val |-> 0, text |-> msg]

\* The percentages of the progress.emit calls of Worker.run, in program order.
P_STARTED == 5
\* Variant of P_NORMALIZED: the tick after normalization repeats the first one.
P_NormalizedRepeated == P_STARTED
P_NORMALIZED == 33
P_UPLOADED == 40
P_OUTPUT_DECIDED == 42
P_JOB_BUILT == 50
P_JOB_SUBMITTED == 55
P_JOB_COMPLETE == 75
P_RESULT_FETCHED == 90
P_FILE_WRITTEN == 100

\* The messages of the error.emit calls that are followed by return.
MsgUnsupported == "Unsupported file type. Please select a valid audio or video file."
MsgCredentials == "Missing or invalid GCP credentials file."
MsgBuckets == "Missing GCS_INPUT_BUCKET or GCS_OUTPUT_BUCKET settings in env.txt."
MsgNoResults == "No results found for the input file."
MsgOutputUri == "Failed to parse output URI."

\* str(e) of the exceptions the external calls raise.
ExcConversion == "exception: decoding or encoding failed"
ExcCredentialFile == "exception: credentials file rejected"
ExcUpload == "exception: upload failed"
ExcSubmit == "exception: request rejected"
ExcTimeout == "exception: operation timed out"
ExcJobFailed == "exception: job failed"
ExcDownload == "exception: download failed"
ExcParse == "exception: results document malformed"
ExcIndex == "list index out of range"
ExcWrite == "exception: cannot write output file"
ExcRemove == "exception: cannot remove temporary file"

MsgSaved(output_file) == "Transcription saved to " \o output_file

(***************************************************************************)
(* The remote side.                                                        *)
(***************************************************************************)
\* The bucket names Worker.run uses.
gcs_input_bucket == "speech_to_text_python"
gcs_output_bucket == "speech_to_text_python"

\* Output addresses a job can report: gs://b/o, gs://b (no object part) and
\* gs:///o (empty bucket).
OutputUris ==
    { <<"g", "s", ":", "/", "/", "b", "/", "o">>,
      <<"g", "s", ":", "/", "/", "b">>,
      <<"g", "s", ":", "/", "/", "/", "o">> }

GsPrefix == <<"g", "s", ":", "/", "/">>

\* Variant of MatchOutputUri: only the scheme is looked at.
MatchGsPrefix(uri) ==
    /\ Len(uri) >= Len(GsPrefix)
    /\ SubSeq(uri, 1, Len(GsPrefix)) = GsPrefix

\* re.match(r"gs://([^/]+)/(.*)", uri): the prefix, one or more characters other
\* than "/", then a "/"; whatever follows is the object.
MatchOutputUri(uri) ==
    /\ Len(uri) >= Len(GsPrefix) + 2
    /\ SubSeq(uri, 1, Len(GsPrefix)) = GsPrefix
    /\ uri[Len(GsPrefix) + 1] # "/"
    /\ \E k \in (Len(GsPrefix) + 2)..Len(uri) : uri[k] = "/"

\* response.results.get(audio_uri): no entry, an entry that is an empty message,
\* or an entry carrying the address of the output object.
FileResults ==
    { [entry |-> "missing", uri |-> <<>>], [entry |-> "empty", uri |-> <<>>] }
    \cup { [entry |-> "present", uri |-> u] : u \in OutputUris }

\* Variant of NoFileResults: only a missing entry counts, as with `is None`.
ResultsEntryMissing(fr) == fr.entry = "missing"

\* `not file_results`
NoFileResults(fr) == fr.entry \in {"missing", "empty"}

\* Results documents: a sequence of segments, each a sequence of alternatives.
Docs ==
    { <<>>,
      << <<"hello", "hullo">>, <<"world">> >>,
      << <<"hello">>, <<>> >> }

\* Variant of Assemble: the last alternative of each segment is taken.
RECURSIVE AssembleLastAlternative(_, _)
AssembleLastAlternative(doc, transcript) ==
    IF doc = <<>> THEN [ok |-> TRUE, text |-> transcript]
    ELSE IF Head(doc) = <<>> THEN [ok |-> FALSE, text |-> transcript]
    ELSE AssembleLastAlternative(Tail(doc),
                                 transcript \o Head(doc)[Len(Head(doc))] \o "\n")

\* Variant of Assemble: a segment without alternatives is skipped.
RECURSIVE AssembleSkipEmpty(_, _)
AssembleSkipEmpty(doc, transcript) ==
    IF doc = <<>> THEN [ok |-> TRUE, text |-> transcript]
    ELSE IF Head(doc) = <<>> THEN AssembleSkipEmpty(Tail(doc), transcript)
    ELSE AssembleSkipEmpty(Tail(doc), transcript \o Head(doc)[1] \o "\n")

RECURSIVE Assemble(_, _)
\* The loop over batch_results.results: alternative #0 of each segment plus a
\* newline; "raise" when a segment has no alternative (IndexError).
Assemble(doc, transcript) ==
    IF doc = <<>> THEN [ok |-> TRUE, text |-> transcript]
    ELSE IF Head(doc) = <<>> THEN [ok |-> FALSE, text |-> transcript]
    ELSE Assemble(Tail(doc), transcript \o Head(doc)[1] \o "\n")

(***************************************************************************)
(* State.                                                                  *)
(***************************************************************************)
VARIABLES
    env_file,        \* env.txt: whether it exists, and its KEY=VALUE lines
    environ,         \* os.environ, restricted to EnvKeys
    files,           \* the local files the pipeline writes: path -> content
    workers,         \* the Worker thread objects, by slot
    worker,          \* MainWindow.worker: a slot, 0 for None
    leaving,         \* threads of replaced Workers that are still inside run()
    queue,           \* signals emitted and not yet delivered to their slots
    input_line,      \* MainWindow.input_line
    process_button,  \* MainWindow.process_button is enabled
    progress_bar,    \* MainWindow.progress_bar value
    status_label,    \* MainWindow.status_label text
    modal,           \* the open modal windows, innermost last
    dialog           \* the fields of the open EnvironmentDialog

vars ==
    << env_file, environ, files, workers, worker, leaving, queue, input_line,
       process_button, progress_bar, status_label, modal, dialog >>

uiVars == << input_line, process_button, progress_bar, status_label, modal, dialog >>
envVars == << env_file, environ >>

\* A slot holding no Worker.  Besides the locals of run(), a Worker records what
\* it emitted, the stages it entered, what it uploaded and how often it called
\* each external operation.
NoWorker ==
    [ pc |-> "none", input_file |-> NoPath, ext |-> <<>>,
      credential_path |-> None, input_bucket |-> "", output_bucket |-> "",
      job |-> "none",
      file_results |-> [entry |-> "missing", uri |-> <<>>],
      doc |-> <<>>, transcript |-> "", emitted |-> <<>>, stages |-> <<>>, staged |-> Absent,
      tempWrites |-> 0, uploads |-> 0, submits |-> 0, waits |-> 0,
      downloads |-> 0, writes |-> 0, removes |-> 0, thread |-> "none" ]

\* Variant of ThreadOfRun: run() is called where start() should be, and
\* executes in the thread of its caller.
ThreadOfCaller == "interface"

\* self.worker.start(): run() executes in the thread of the Worker.
ThreadOfRun == "worker"

\* Worker(file_path) followed by start(): the thread exists and run() is about
\* to begin.
NewWorker(file_path) ==
    [NoWorker EXCEPT !.pc = "start", !.input_file = file_path, !.thread = ThreadOfRun]

NoDialog == [creds_edit |-> "", input_bucket_edit |-> "", output_bucket_edit |-> ""]

\* env.txt as the program can find it at startup.
InitFiles ==
    { NoFile,
      EnvFile(SettingsContent(GoneCredential, "my_bucket", "my_bucket")),
      EnvFile(SettingsContent(GoodCredential, "my_bucket", "my_bucket")) }

\* The value a fresh QProgressBar shows.
ProgressReset == -1

Init ==
    /\ env_file \in InitFiles
    /\ environ = load_env(env_file, [k \in EnvKeys |-> None])
    /\ files = [p \in LocalPaths |-> Absent]
    /\ workers = [w \in Slots |-> NoWorker]
    /\ worker = 0
    /\ leaving = 0
    /\ queue = <<>>
    /\ input_line = NoPath
    /\ process_button = TRUE
    /\ progress_bar = ProgressReset
    /\ status_label = ""
    /\ modal = <<>>
    /\ dialog = NoDialog

(***************************************************************************)
(* Worker.run, one action per blocking call.                               *)
(***************************************************************************)
\* The run of slot w has started and has not emitted its terminal notification.
Running(w) == workers[w].pc \notin {"none", "returning", "done"}

\* The thread of slot w is inside run().
InRun(w) == workers[w].pc \notin {"none", "done"}

Events(w, ns) == [i \in 1..Len(ns) |-> [w |-> w, kind |-> ns[i].kind,
                                         val |-> ns[i].val, text |-> ns[i].text]]

\* The worker in slot w becomes r and emits the notifications ns, in order.
Step(w, r, ns) ==
    /\ workers' = [workers EXCEPT ![w] = [r EXCEPT !.emitted = @ \o ns]]
    /\ queue' = queue \o Events(w, ns)

\* self.error.emit(msg), with the return still ahead.
ErrorReturn(w, r, msg) == Step(w, [r EXCEPT !.pc = "returning"], <<Error(msg)>>)

\* Variant of ExceptHandler: the exception is swallowed and nothing is emitted.
ExceptHandlerSilent(w, r, msg) == Step(w, [r EXCEPT !.pc = "returning"], <<>>)

\* except Exception as e: self.error.emit(str(e)), with the end of run()
\* still ahead.
ExceptHandler(w, r, msg) == Step(w, [r EXCEPT !.pc = "returning"], <<Error(msg)>>)

Enter(r, stage) == [r EXCEPT !.stages = Append(@, stage)]

\* The split of the path, the lower-casing of the extension and the first tick.
Begin(w) ==
    LET r == workers[w] IN
    /\ r.pc = "start"
    /\ Step(w, [r EXCEPT !.pc = "convert", !.ext = Lower(r.input_file.ext)],
            <<Progress(P_STARTED)>>)
    /\ UNCHANGED << files, worker, leaving, envVars, uiVars >>

\* Variant of Convert: the encoder is started in the background and run() goes
\* on without waiting for it to write the file to its end.
ConvertNoWait(w) ==
    LET r == workers[w]
        temp_audio_file == TempPath(r.input_file.base)
    IN
    /\ r.pc = "convert"
    /\ IF ClassifyExt(r.ext) = "unsupported"
       THEN /\ ErrorReturn(w, r, MsgUnsupported)
            /\ UNCHANGED files
       ELSE /\ Step(w, [Enter(r, "normalize") EXCEPT !.pc = "credentials",
                                                     !.tempWrites = @ + 1],
                    <<Progress(P_NORMALIZED)>>)
            /\ files' = [files EXCEPT ![temp_audio_file] = Partial]
    /\ UNCHANGED << worker, leaving, envVars, uiVars >>

\* The choice of the clip class, the opening of the clip and the start of
\* write_audiofile, which creates the file at temp_audio_file.
Convert(w) ==
    LET r == workers[w]
        temp_audio_file == TempPath(r.input_file.base)
    IN
    /\ r.pc = "convert"
    /\ IF ClassifyExt(r.ext) = "unsupported"
       THEN /\ ErrorReturn(w, r, MsgUnsupported)
            /\ UNCHANGED files
       ELSE \/ /\ ExceptHandler(w, Enter(r, "normalize"), ExcConversion)
               /\ UNCHANGED files
            \/ /\ Step(w, [Enter(r, "normalize") EXCEPT !.pc = "writing",
                                                        !.tempWrites = @ + 1], <<>>)
               /\ files' = [files EXCEPT ![temp_audio_file] = Partial]
    /\ UNCHANGED << worker, leaving, envVars, uiVars >>

\* write_audiofile runs to its end, or raises and leaves what it wrote so far.
WriteAudio(w) ==
    LET r == workers[w]
        temp_audio_file == TempPath(r.input_file.base)
    IN
    /\ r.pc = "writing"
    /\ \/ /\ ExceptHandler(w, r, ExcConversion)
          /\ UNCHANGED files
       \/ /\ Step(w, [r EXCEPT !.pc = "credentials"], <<Progress(P_NORMALIZED)>>)
          /\ files' = [files EXCEPT ![temp_audio_file] = Complete]
    /\ UNCHANGED << worker, leaving, envVars, uiVars >>

\* Variant of CredentialMissing: the existence of the file is not checked.
CredentialPathUnset(path) == path = None \/ path = ""

\* not credential_path or not os.path.exists(credential_path)
CredentialMissing(path) == path = None \/ path = "" \/ ~CredentialExists(path)

\* not gcs_input_bucket or not gcs_output_bucket
BucketMissing == gcs_input_bucket = "" \/ gcs_output_bucket = ""

\* The credential lookup, the loading of the credentials and the bucket check.
CheckCredentials(w) ==
    LET r == [workers[w] EXCEPT !.credential_path = environ[CredKey]] IN
    /\ workers[w].pc = "credentials"
    /\ IF CredentialMissing(r.credential_path)
       THEN ErrorReturn(w, r, MsgCredentials)
       ELSE \/ ExceptHandler(w, r, ExcCredentialFile)
            \/ IF BucketMissing
               THEN ErrorReturn(w, r, MsgBuckets)
               ELSE Step(w, [r EXCEPT !.pc = "upload"], <<>>)
    /\ UNCHANGED << files, worker, leaving, envVars, uiVars >>

\* blob.upload_from_filename(temp_audio_file): the object gets the content the
\* file has now.
Upload(w) ==
    LET r == Enter(workers[w], "upload")
        temp_audio_file == TempPath(r.input_file.base)
    IN
    /\ workers[w].pc = "upload"
    /\ \/ ExceptHandler(w, r, ExcUpload)
       \/ Step(w, [r EXCEPT !.pc = "output", !.uploads = @ + 1,
                            !.input_bucket = gcs_input_bucket,
                            !.staged = files[temp_audio_file]],
               <<Progress(P_UPLOADED)>>)
    /\ UNCHANGED << files, worker, leaving, envVars, uiVars >>

\* The output address is composed.
DecideOutput(w) ==
    /\ workers[w].pc = "output"
    /\ Step(w, [workers[w] EXCEPT !.pc = "build", !.output_bucket = gcs_output_bucket],
            <<Progress(P_OUTPUT_DECIDED)>>)
    /\ UNCHANGED << files, worker, leaving, envVars, uiVars >>

\* The request is built.
BuildRequest(w) ==
    /\ workers[w].pc = "build"
    /\ Step(w, [workers[w] EXCEPT !.pc = "submit"], <<Progress(P_JOB_BUILT)>>)
    /\ UNCHANGED << files, worker, leaving, envVars, uiVars >>

\* client.batch_recognize(request=request)
Submit(w) ==
    LET r == Enter(workers[w], "submit") IN
    /\ workers[w].pc = "submit"
    /\ \/ ExceptHandler(w, r, ExcSubmit)
       \/ Step(w, [r EXCEPT !.pc = "wait", !.submits = @ + 1, !.job = "running"],
               <<Progress(P_JOB_SUBMITTED)>>)
    /\ UNCHANGED << files, worker, leaving, envVars, uiVars >>

\* The recognition service ends the job, whether or not anyone still waits.
RemoteJobEnds(w) ==
    /\ workers[w].job = "running"
    /\ \E outcome \in {"succeeded", "failed"} :
          workers' = [workers EXCEPT ![w].job = outcome]
    /\ UNCHANGED << files, worker, leaving, queue, envVars, uiVars >>

\* Variant of Wait: after a timeout the error is emitted and the wait is taken
\* up again.
WaitAgainAfterTimeout(w) ==
    LET r == [Enter(workers[w], "wait") EXCEPT !.waits = @ + 1] IN
    /\ workers[w].pc = "wait"
    /\ CASE r.job = "succeeded" ->
               \E fr \in FileResults :
                  Step(w, [r EXCEPT !.pc = "lookup", !.file_results = fr],
                       <<Progress(P_JOB_COMPLETE)>>)
         [] r.job = "failed" -> ExceptHandler(w, r, ExcJobFailed)
         [] OTHER -> Step(w, r, <<Error(ExcTimeout)>>)
    /\ UNCHANGED << files, worker, leaving, envVars, uiVars >>

\* operation.result(timeout=3600): the response of a job that succeeded, the
\* error of a job that failed, a timeout while the job is still running.
Wait(w) ==
    LET r == [Enter(workers[w], "wait") EXCEPT !.waits = @ + 1] IN
    /\ workers[w].pc = "wait"
    /\ CASE r.job = "succeeded" ->
               \E fr \in FileResults :
                  Step(w, [r EXCEPT !.pc = "lookup", !.file_results = fr],
                       <<Progress(P_JOB_COMPLETE)>>)
         [] r.job = "failed" -> ExceptHandler(w, r, ExcJobFailed)
         [] OTHER -> ExceptHandler(w, r, ExcTimeout)
    /\ UNCHANGED << files, worker, leaving, envVars, uiVars >>

\* Variant of Lookup: the return after the no-results error is missing.
LookupNoReturn(w) ==
    LET r == workers[w] IN
    /\ r.pc = "lookup"
    /\ IF NoFileResults(r.file_results)
       THEN Step(w, [r EXCEPT !.pc = "download"], <<Error(MsgNoResults)>>)
       ELSE IF ~MatchOutputUri(r.file_results.uri)
       THEN ErrorReturn(w, r, MsgOutputUri)
       ELSE Step(w, [r EXCEPT !.pc = "download"], <<>>)
    /\ UNCHANGED << files, worker, leaving, envVars, uiVars >>

\* The lookup of the results of the staged input and the parse of their address.
Lookup(w) ==
    LET r == workers[w] IN
    /\ r.pc = "lookup"
    /\ IF NoFileResults(r.file_results)
       THEN ErrorReturn(w, r, MsgNoResults)
       ELSE IF ~MatchOutputUri(r.file_results.uri)
       THEN ErrorReturn(w, r, MsgOutputUri)
       ELSE Step(w, [r EXCEPT !.pc = "download"], <<>>)
    /\ UNCHANGED << files, worker, leaving, envVars, uiVars >>

\* output_blob.download_as_bytes()
Download(w) ==
    LET r == Enter(workers[w], "fetch") IN
    /\ workers[w].pc = "download"
    /\ \/ ExceptHandler(w, r, ExcDownload)
       \/ Step(w, [r EXCEPT !.pc = "parse", !.downloads = @ + 1], <<>>)
    /\ UNCHANGED << files, worker, leaving, envVars, uiVars >>

\* BatchRecognizeResults.from_json and the loop that builds the transcript.
Parse(w) ==
    LET r == workers[w] IN
    /\ r.pc = "parse"
    /\ \/ ExceptHandler(w, r, ExcParse)
       \/ \E doc \in Docs :
             LET a == Assemble(doc, "") IN
             IF a.ok
             THEN Step(w, [r EXCEPT !.pc = "write", !.doc = doc, !.transcript = a.text],
                       <<Progress(P_RESULT_FETCHED)>>)
             ELSE ExceptHandler(w, [r EXCEPT !.doc = doc], ExcIndex)
    /\ UNCHANGED << files, worker, leaving, envVars, uiVars >>

\* open(output_file, "w") and f.write(transcript): open fails, or the file is
\* truncated and the write fails, or the transcript replaces the content.
WriteTranscript(w) ==
    LET r == Enter(workers[w], "write")
        output_file == OutPath(r.input_file.base)
    IN
    /\ workers[w].pc = "write"
    /\ \/ /\ ExceptHandler(w, r, ExcWrite)
          /\ \/ UNCHANGED files
             \/ files' = [files EXCEPT ![output_file] = ""]
       \/ /\ Step(w, [r EXCEPT !.pc = "cleanup", !.writes = @ + 1],
                  <<Progress(P_FILE_WRITTEN)>>)
          /\ files' = [files EXCEPT ![output_file] = r.transcript]
    /\ UNCHANGED << worker, leaving, envVars, uiVars >>

\* Variant of Cleanup: the temporary file is never removed.
CleanupSkipped(w) ==
    /\ workers[w].pc = "cleanup"
    /\ Step(w, [workers[w] EXCEPT !.pc = "finish"], <<>>)
    /\ UNCHANGED << files, worker, leaving, envVars, uiVars >>

\* if os.path.exists(temp_audio_file): os.remove(temp_audio_file)
Cleanup(w) ==
    LET r == workers[w]
        temp_audio_file == TempPath(r.input_file.base)
    IN
    /\ r.pc = "cleanup"
    /\ IF files[temp_audio_file] # Absent
       THEN \/ /\ ExceptHandler(w, r, ExcRemove)
               /\ UNCHANGED files
            \/ /\ Step(w, [r EXCEPT !.pc = "finish", !.removes = @ + 1], <<>>)
               /\ files' = [files EXCEPT ![temp_audio_file] = Absent]
       ELSE /\ Step(w, [r EXCEPT !.pc = "finish"], <<>>)
            /\ UNCHANGED files
    /\ UNCHANGED << worker, leaving, envVars, uiVars >>

\* run() returns and the thread ends.
Return(w) ==
    /\ workers[w].pc = "returning"
    /\ workers' = [workers EXCEPT ![w].pc = "done"]
    /\ UNCHANGED << files, worker, leaving, queue, envVars, uiVars >>

\* run() returns in the thread of a Worker that MainWindow.worker no longer
\* refers to.
ReplacedThreadReturns ==
    /\ leaving > 0
    /\ leaving' = leaving - 1
    /\ UNCHANGED << files, workers, worker, queue, envVars, uiVars >>

\* self.finished.emit(...), with the end of run() still ahead.
Finish(w) ==
    LET r == workers[w] IN
    /\ r.pc = "finish"
    /\ Step(w, [r EXCEPT !.pc = "returning"],
            <<Finished(MsgSaved(OutPath(r.input_file.base)))>>)
    /\ UNCHANGED << files, worker, leaving, envVars, uiVars >>

(***************************************************************************)
(* The interface thread.  A modal window runs its own event loop: while it *)
(* is open only the innermost modal window takes input, and queued signals *)
(* are still delivered.                                                    *)
(***************************************************************************)
\* The interface thread takes an event only while it executes nothing else.
InterfaceIdle == \A w \in Slots : InRun(w) => workers[w].thread # "interface"

Top == IF modal = <<>> THEN "main" ELSE modal[Len(modal)]
Pop(stack) == SubSeq(stack, 1, Len(stack) - 1)

\* not file_path or not os.path.exists(file_path)
InvalidInput(file_path) == file_path = NoPath \/ file_path \notin ExistingInputs

\* MainWindow.browse_file: the file dialog returns a file, or "" when cancelled.
BrowseFile ==
    /\ InterfaceIdle
    /\ Top = "main"
    /\ \E file_path \in ExistingInputs \cup {NoPath} :
          IF file_path # NoPath
          THEN /\ input_line' = file_path
               /\ status_label' = ""
          ELSE UNCHANGED << input_line, status_label >>
    /\ UNCHANGED << files, workers, worker, leaving, queue, envVars, process_button,
                    progress_bar, modal, dialog >>

\* The user types into the input line.
EditInputLine ==
    /\ InterfaceIdle
    /\ Top = "main"
    /\ \E text \in InputTexts : input_line' = text
    /\ UNCHANGED << files, workers, worker, leaving, queue, envVars, process_button,
                    progress_bar, status_label, modal, dialog >>

\* Variant of ButtonWhileRunning: the button is left enabled.
ButtonLeftEnabled == TRUE

\* setEnabled(...) of the process button when start_processing starts a Worker.
ButtonWhileRunning == FALSE

\* The slot that the Worker created by start_processing takes: the Worker it
\* replaces has emitted its terminal notification, or there was none.
FreeSlot(w) ==
    /\ ~Running(w)
    /\ \A v \in Slots : v < w => Running(v)

\* The threads inside run() once a new Worker has taken slot w.
ThreadsAfterStart(w) ==
    Cardinality({v \in Slots \ {w} : InRun(v)}) + leaving
      + (IF workers[w].pc = "returning" THEN 1 ELSE 0) + 1

\* MainWindow.start_processing, the slot of process_button.clicked.
StartProcessing ==
    /\ InterfaceIdle
    /\ Top = "main"
    /\ process_button
    /\ IF InvalidInput(input_line)
       THEN /\ modal' = Append(modal, "warning")
            /\ UNCHANGED << workers, worker, leaving, process_button, progress_bar,
                            status_label >>
       ELSE /\ \E w \in Slots :
                  /\ FreeSlot(w)
                  /\ ThreadsAfterStart(w) <= MaxThreads
                  /\ worker' = w
                  /\ workers' = [workers EXCEPT ![w] = NewWorker(input_line)]
                  /\ leaving' = leaving + (IF workers[w].pc = "returning" THEN 1 ELSE 0)
            /\ process_button' = ButtonWhileRunning
            /\ progress_bar' = 0
            /\ status_label' = "Processing..."
            /\ UNCHANGED modal
    /\ UNCHANGED << files, queue, envVars, input_line, dialog >>

\* The user closes the warning of start_processing.
CloseWarning ==
    /\ InterfaceIdle
    /\ Top = "warning"
    /\ modal' = Pop(modal)
    /\ UNCHANGED << files, workers, worker, leaving, queue, envVars, input_line,
                    process_button, progress_bar, status_label, dialog >>

\* progress_bar.setValue, the slot of Worker.progress.
HandleProgress ==
    /\ InterfaceIdle
    /\ queue # <<>>
    /\ Head(queue).kind = "progress"
    /\ progress_bar' = Head(queue).val
    /\ queue' = Tail(queue)
    /\ UNCHANGED << files, workers, worker, leaving, envVars, input_line, process_button,
                    status_label, modal, dialog >>

\* MainWindow.processing_finished up to the message box.
ProcessingFinished ==
    /\ InterfaceIdle
    /\ queue # <<>>
    /\ Head(queue).kind = "finished"
    /\ status_label' = Head(queue).text
    /\ modal' = Append(modal, "done")
    /\ queue' = Tail(queue)
    /\ UNCHANGED << files, workers, worker, leaving, envVars, input_line, process_button,
                    progress_bar, dialog >>

\* MainWindow.processing_finished after the message box is closed.
ProcessingFinishedEnd ==
    /\ InterfaceIdle
    /\ Top = "done"
    /\ modal' = Pop(modal)
    /\ process_button' = TRUE
    /\ UNCHANGED << files, workers, worker, leaving, queue, envVars, input_line,
                    progress_bar, status_label, dialog >>

\* MainWindow.processing_error up to the message box.
ProcessingError ==
    /\ InterfaceIdle
    /\ queue # <<>>
    /\ Head(queue).kind = "error"
    /\ status_label' = "Error: " \o Head(queue).text
    /\ modal' = Append(modal, "error")
    /\ queue' = Tail(queue)
    /\ UNCHANGED << files, workers, worker, leaving, envVars, input_line, process_button,
                    progress_bar, dialog >>

\* Variant of ProcessingErrorEnd: the progress bar keeps its value.
ProcessingErrorEndNoReset ==
    /\ InterfaceIdle
    /\ Top = "error"
    /\ modal' = Pop(modal)
    /\ process_button' = TRUE
    /\ UNCHANGED << files, workers, worker, leaving, queue, envVars, input_line,
                    progress_bar, status_label, dialog >>

\* MainWindow.processing_error after the message box is closed.
ProcessingErrorEnd ==
    /\ InterfaceIdle
    /\ Top = "error"
    /\ modal' = Pop(modal)
    /\ process_button' = TRUE
    /\ progress_bar' = 0
    /\ UNCHANGED << files, workers, worker, leaving, queue, envVars, input_line,
                    status_label, dialog >>

\* MainWindow.open_env_dialog and EnvironmentDialog.__init__: the fields show
\* the values of env.txt.
OpenEnvDialog ==
    /\ InterfaceIdle
    /\ Top = "main"
    /\ modal' = Append(modal, "env")
    /\ dialog' = [ creds_edit |-> DialogValue(env_file, CredKey),
                   input_bucket_edit |-> DialogValue(env_file, InKey),
                   output_bucket_edit |-> DialogValue(env_file, OutKey) ]
    /\ UNCHANGED << files, workers, worker, leaving, queue, envVars, input_line,
                    process_button, progress_bar, status_label >>

\* EnvironmentDialog.browse_file: the credentials field is read-only and is set
\* from the file dialog alone.
DialogBrowseFile ==
    /\ InterfaceIdle
    /\ Top = "env"
    /\ \E file_path \in ExistingCredentials \cup {""} :
          IF file_path # ""
          THEN dialog' = [dialog EXCEPT !.creds_edit = file_path]
          ELSE UNCHANGED dialog
    /\ UNCHANGED << files, workers, worker, leaving, queue, envVars, input_line,
                    process_button, progress_bar, status_label, modal >>

\* The user types into the bucket fields.
DialogEditBuckets ==
    /\ InterfaceIdle
    /\ Top = "env"
    /\ \E inb \in BucketTexts, outb \in BucketTexts :
          dialog' = [dialog EXCEPT !.input_bucket_edit = inb,
                                   !.output_bucket_edit = outb]
    /\ UNCHANGED << files, workers, worker, leaving, queue, envVars, input_line,
                    process_button, progress_bar, status_label, modal >>

\* save_env(text): env.txt is rewritten and loaded into the environment.
save_env(text) ==
    /\ env_file' = EnvFile(text)
    /\ environ' = load_env(EnvFile(text), environ)

\* EnvironmentDialog.save_settings up to the message box.
SaveSettings ==
    /\ InterfaceIdle
    /\ Top = "env"
    /\ save_env(SettingsContent(dialog.creds_edit, dialog.input_bucket_edit,
                                dialog.output_bucket_edit))
    /\ modal' = Append(modal, "saved")
    /\ UNCHANGED << files, workers, worker, leaving, queue, input_line, process_button,
                    progress_bar, status_label, dialog >>

\* EnvironmentDialog.save_settings after the message box is closed: accept().
SaveSettingsEnd ==
    /\ InterfaceIdle
    /\ Top = "saved"
    /\ modal' = Pop(Pop(modal))
    /\ dialog' = NoDialog
    /\ UNCHANGED << files, workers, worker, leaving, queue, envVars, input_line,
                    process_button, progress_bar, status_label >>

\* The Cancel button of the dialog: reject().
CancelDialog ==
    /\ InterfaceIdle
    /\ Top = "env"
    /\ modal' = Pop(modal)
    /\ dialog' = NoDialog
    /\ UNCHANGED << files, workers, worker, leaving, queue, envVars, input_line,
                    process_button, progress_bar, status_label >>

(***************************************************************************)
(* Specifications.                                                         *)
(***************************************************************************)
WorkerStep(w) ==
    \/ Begin(w)
    \/ Convert(w)
    \/ WriteAudio(w)
    \/ CheckCredentials(w)
    \/ Upload(w)
    \/ DecideOutput(w)
    \/ BuildRequest(w)
    \/ Submit(w)
    \/ Wait(w)
    \/ Lookup(w)
    \/ Download(w)
    \/ Parse(w)
    \/ WriteTranscript(w)
    \/ Cleanup(w)
    \/ Finish(w)
    \/ Return(w)

Next ==
    \/ \E w \in Slots : Begin(w)
    \/ \E w \in Slots : Convert(w)
    \/ \E w \in Slots : WriteAudio(w)
    \/ \E w \in Slots : CheckCredentials(w)
    \/ \E w \in Slots : Upload(w)
    \/ \E w \in Slots : DecideOutput(w)
    \/ \E w \in Slots : BuildRequest(w)
    \/ \E w \in Slots : Submit(w)
    \/ \E w \in Slots : RemoteJobEnds(w)
    \/ \E w \in Slots : Wait(w)
    \/ \E w \in Slots : Lookup(w)
    \/ \E w \in Slots : Download(w)
    \/ \E w \in Slots : Parse(w)
    \/ \E w \in Slots : WriteTranscript(w)
    \/ \E w \in Slots : Cleanup(w)
    \/ \E w \in Slots : Finish(w)
    \/ \E w \in Slots : Return(w)
    \/ ReplacedThreadReturns
    \/ BrowseFile
    \/ EditInputLine
    \/ StartProcessing
    \/ CloseWarning
    \/ HandleProgress
    \/ ProcessingFinished
    \/ ProcessingFinishedEnd
    \/ ProcessingError
    \/ ProcessingErrorEnd
    \/ OpenEnvDialog
    \/ DialogBrowseFile
    \/ DialogEditBuckets
    \/ SaveSettings
    \/ SaveSettingsEnd
    \/ CancelDialog

Spec == Init /\ [][Next]_vars

\* A started thread keeps running: the scheduler never starves a Worker, and
\* every blocking call of run() returns or raises.
FairSpec == Spec /\ \A w \in Slots : WF_vars(WorkerStep(w))

(***************************************************************************)
(* Vocabulary of the properties.                                           *)
(***************************************************************************)
Last(seq) == seq[Len(seq)]

IsPrefix(s, t) == Len(s) <= Len(t) /\ SubSeq(t, 1, Len(s)) = s

OfKind(r, kind) == SelectSeq(r.emitted, LAMBDA n : n.kind = kind)

\* The percentages a run has emitted, in order.
ProgressValues(r) == [i \in 1..Len(OfKind(r, "progress")) |-> OfKind(r, "progress")[i].val]

Emitted(r, n) == \E i \in 1..Len(r.emitted) : r.emitted[i] = n

Succeeded(r) == Len(OfKind(r, "finished")) > 0
Failed(r) == Len(OfKind(r, "error")) > 0

\* The text of the failure of a failed run.
Failure(r) == OfKind(r, "error")[1].text

FailedWith(r, msg) == Failed(r) /\ Failure(r) = msg

Started(r) == r.pc # "none"
Ended(r) == r.pc \in {"returning", "done"}

TempOf(r) == files[TempPath(r.input_file.base)]

(***************************************************************************)
(* C1.  The progress values a run emits are a prefix of 5, 33, 40, 42, 50, *)
(* 55, 75, 90, 100, hence strictly increasing and each at most once, and a *)
(* run that ends in success has emitted all of them.                       *)
(***************************************************************************)
DocumentedProgress == <<5, 33, 40, 42, 50, 55, 75, 90, 100>>

StrictlyIncreasing(s) == \A i \in 1..(Len(s) - 1) : s[i] < s[i + 1]

\* C1: the ticks of every run are a prefix of the documented sequence, strictly
\* increasing, and complete in a run that succeeded.
C1_ProgressSequence ==
    \A w \in Slots :
       LET r == workers[w]
           p == ProgressValues(r)
       IN  /\ IsPrefix(p, DocumentedProgress)
           /\ StrictlyIncreasing(p)
           /\ Succeeded(r) => p = DocumentedProgress

\* A run has ended in success.
C1_Witness ==
    \E w \in Slots : Ended(workers[w]) /\ Succeeded(workers[w])

(***************************************************************************)
(* C2.  Once a stage fails the run emits exactly one error notification,   *)
(* as the last thing it emits: no later progress tick, no success, no side *)
(* effect of a later stage, and no stage is tried twice.                   *)
(***************************************************************************)
\* The stage a failure text belongs to: 1 normalize, 2 credential and
\* configuration check, 3 upload, 4 submit, 5 wait, 6 result lookup,
\* 7 download, 8 parse, 9 write, 10 removal of the temporary file.
FailedStage(msg) ==
    CASE msg \in {MsgUnsupported, ExcConversion} -> 1
      [] msg \in {MsgCredentials, ExcCredentialFile, MsgBuckets} -> 2
      [] msg = ExcUpload -> 3
      [] msg = ExcSubmit -> 4
      [] msg \in {ExcTimeout, ExcJobFailed} -> 5
      [] msg \in {MsgNoResults, MsgOutputUri} -> 6
      [] msg = ExcDownload -> 7
      [] msg \in {ExcParse, ExcIndex} -> 8
      [] msg = ExcWrite -> 9
      [] OTHER -> 10

\* The number of progress ticks emitted before each stage completes.
TicksBefore(stage) ==
    CASE stage = 1 -> 1
      [] stage \in {2, 3} -> 2
      [] stage = 4 -> 5
      [] stage = 5 -> 6
      [] stage \in {6, 7, 8} -> 7
      [] stage = 9 -> 8
      [] OTHER -> 9

\* C2: a failed run has ended with exactly one error as its last notification,
\* with the ticks and side effects of the stages before the failed one only, and
\* no external operation is called twice.
C2_FailureShortCircuits ==
    \A w \in Slots :
       LET r == workers[w]
           stage == FailedStage(Failure(r))
       IN  /\ r.tempWrites <= 1 /\ r.uploads <= 1 /\ r.submits <= 1
           /\ r.waits <= 1 /\ r.downloads <= 1 /\ r.writes <= 1
           /\ Failed(r) =>
                /\ Ended(r)
                /\ Len(OfKind(r, "error")) = 1
                /\ Last(r.emitted).kind = "error"
                /\ ~Succeeded(r)
                /\ ProgressValues(r) = SubSeq(DocumentedProgress, 1, TicksBefore(stage))
                /\ stage <= 3 => r.uploads = 0
                /\ stage <= 4 => r.submits = 0 /\ r.waits = 0
                /\ stage <= 7 => r.downloads = 0
                /\ stage <= 9 => r.writes = 0 /\ r.removes = 0

\* A run failed at its write stage, after all the earlier stages succeeded.
C2_Witness ==
    \E w \in Slots : FailedWith(workers[w], ExcWrite) /\ workers[w].downloads = 1

(***************************************************************************)
(* C3.  The stages of a run are entered in the order normalize, upload,    *)
(* submit, wait, fetch, write, each at most once; the upload starts only   *)
(* when the temporary waveform file is completely written, the submission  *)
(* only after the upload completed, the wait only after the submission     *)
(* returned, the download only after the job reported success, and the     *)
(* write only after the download and the parse completed.                  *)
(***************************************************************************)
StageOrder == <<"normalize", "upload", "submit", "wait", "fetch", "write">>

Entered(r, stage) == \E i \in 1..Len(r.stages) : r.stages[i] = stage

\* C3: the stages entered are a prefix of the fixed order, and each stage is
\* entered only when the side effect of the one before it is complete.
C3_StageOrder ==
    \A w \in Slots :
       LET r == workers[w] IN
       /\ IsPrefix(r.stages, StageOrder)
       /\ r.pc = "upload" => TempOf(r) = Complete
       /\ Entered(r, "upload") => r.tempWrites = 1 /\ Emitted(r, Progress(33))
       /\ r.uploads > 0 => r.staged = Complete
       /\ Entered(r, "submit") => r.uploads = 1 /\ Emitted(r, Progress(40))
       /\ Entered(r, "wait") => r.submits = 1 /\ Emitted(r, Progress(55))
       /\ Entered(r, "fetch") => r.job = "succeeded" /\ Emitted(r, Progress(75))
       /\ Entered(r, "write") => r.downloads = 1 /\ Emitted(r, Progress(90))

\* A run has entered all six stages.
C3_Witness ==
    \E w \in Slots : workers[w].stages = StageOrder /\ workers[w].pc = "cleanup"

(***************************************************************************)
(* C4.  Every started run ends, and a run that has ended has emitted       *)
(* exactly one terminal notification, success or failure, as the last      *)
(* thing it emitted; a run that has not ended has emitted none.            *)
(***************************************************************************)
Terminals(r) == Len(OfKind(r, "finished")) + Len(OfKind(r, "error"))

OneTerminal(r) ==
    /\ Ended(r) => Terminals(r) = 1 /\ Last(r.emitted).kind \in {"finished", "error"}
    /\ ~Ended(r) => Terminals(r) = 0

\* C4: every started run eventually ends, with exactly one terminal notification
\* as the last thing it emitted, and emits none before it ends.
C4_RunEndsOnce ==
    /\ [](\A w \in Slots : OneTerminal(workers[w]))
    /\ \A w \in Slots : (workers[w].pc = "start") ~> Ended(workers[w])

\* A run ended by the timeout of its wait while the job was still running.
C4_Witness ==
    \E w \in Slots :
       /\ Ended(workers[w])
       /\ FailedWith(workers[w], ExcTimeout)
       /\ workers[w].job = "running"

(***************************************************************************)
(* C5.  At most one Worker runs at a time, and the process button is       *)
(* disabled from the start of a Worker until the handler of its success or *)
(* failure notification has returned.                                      *)
(***************************************************************************)
\* A terminal notification is queued, or its handler has not returned yet.
TerminalPending ==
    \/ \E i \in 1..Len(queue) : queue[i].kind \in {"finished", "error"}
    \/ \E i \in 1..Len(modal) : modal[i] \in {"done", "error"}

InFlight == (\E w \in Slots : Running(w)) \/ TerminalPending


\* C5: at most one Worker runs, and the process button is disabled while a run
\* is in flight or its terminal notification is not handled to the end.
C5_SingleRunInFlight ==
    /\ Cardinality({w \in Slots : Running(w)}) <= 1
    /\ InFlight => ~process_button

\* A second run is in flight, after the first one ended and was handled.
C5_Witness ==
    /\ \E w \in Slots : workers[w].pc = "wait"
    /\ status_label = "Processing..."
    /\ files[OutPath("a")] # Absent

(***************************************************************************)
(* C6.  While a run is in flight and has not yet looked up the credential  *)
(* path, no step changes the credential path in the process environment,   *)
(* so the lookup obtains the value of the start of the run.                *)
(***************************************************************************)
BeforeLookup(r) == r.pc \in {"start", "convert", "writing", "credentials"}

\* C6: no step taken while a run is in flight before its credential lookup
\* changes the credential path of the process environment.
C6_ConfigurationFrozenInFlight ==
    [][(\E w \in Slots : BeforeLookup(workers[w])) =>
          environ'[CredKey] = environ[CredKey]]_vars

(***************************************************************************)
(* C7.  After a run that ended in success the temporary waveform file does *)
(* not exist; after a run that failed once normalization had completed it  *)
(* is still present, completely written.                                   *)
(***************************************************************************)
\* C7: after a success the temporary file is absent; after a failure that
\* followed normalization it is present and complete.
C7_TempRemovedOnSuccessOnly ==
    \A w \in Slots :
       LET r == workers[w] IN
       Ended(r) =>
          /\ Succeeded(r) => TempOf(r) = Absent
          /\ Failed(r) /\ Emitted(r, Progress(33)) => TempOf(r) = Complete

\* A run ended in success and removed the temporary file it had written.
C7_Witness ==
    \E w \in Slots :
       /\ Ended(workers[w])
       /\ Succeeded(workers[w])
       /\ workers[w].removes = 1
       /\ TempOf(workers[w]) = Absent

(***************************************************************************)
(* C8.  A run whose credential lookup finds no path, or a path that names  *)
(* no file, ends with the missing-credential error without staging an      *)
(* object, submitting a job or writing a transcript; and no run uploads    *)
(* anything unless its lookup found the path of an existing file.          *)
(***************************************************************************)
\* The run has looked up the credential path.
LookedUp(r) == Emitted(r, Progress(33)) /\ r.pc # "credentials"

NoCredentialFile(path) == path \in {None, ""} \/ path \notin ExistingCredentials

\* C8: a lookup that finds no existing credential file ends the run with the
\* missing-credential error before any upload, submission or transcript write.
C8_MissingCredentialStopsRun ==
    \A w \in Slots :
       LET r == workers[w] IN
       /\ LookedUp(r) /\ NoCredentialFile(r.credential_path) =>
             /\ Ended(r)
             /\ Last(r.emitted) = Error(MsgCredentials)
             /\ ~Entered(r, "upload")
             /\ r.uploads = 0 /\ r.submits = 0 /\ r.writes = 0
       /\ Entered(r, "upload") => ~NoCredentialFile(r.credential_path)

\* A run found the path of a file that no longer exists and ended with the
\* missing-credential error.
C8_Witness ==
    \E w \in Slots :
       /\ workers[w].credential_path = GoneCredential
       /\ FailedWith(workers[w], MsgCredentials)

(***************************************************************************)
(* C9.  A run on an input whose lower-cased extension is neither a video   *)
(* nor an audio extension ends with the unsupported-format error right     *)
(* after its first tick: it writes no temporary file, uploads nothing and  *)
(* submits no job.                                                         *)
(***************************************************************************)
Unrecognized(path) ==
    \A known \in video_extensions \cup audio_extensions : Lower(path.ext) # known

\* C9: a run on an unrecognized extension ends with the unsupported-format error
\* after its first tick, having written, uploaded and submitted nothing.
C9_UnsupportedFormatCreatesNothing ==
    \A w \in Slots :
       LET r == workers[w] IN
       Started(r) /\ Unrecognized(r.input_file) =>
          /\ r.stages = <<>>
          /\ r.tempWrites = 0 /\ r.uploads = 0 /\ r.submits = 0 /\ r.writes = 0
          /\ r.pc \in {"start", "convert", "returning", "done"}
          /\ Ended(r) => r.emitted = <<Progress(5), Error(MsgUnsupported)>>

\* A run on a.pdf ended with the unsupported-format error while a temporary
\* file of an earlier run on the same base still exists.
C9_Witness ==
    \E w \in Slots :
       /\ FailedWith(workers[w], MsgUnsupported)
       /\ TempOf(workers[w]) # Absent

(***************************************************************************)
(* C10.  After a run that failed in decoding or encoding no partially      *)
(* written file is at the temporary path, and no partially written file is *)
(* ever uploaded.                                                          *)
(***************************************************************************)
\* C10: a run that failed in conversion leaves no partially written temporary
\* file, and no partially written file is uploaded.
C10_NoHalfWrittenTemp ==
    \A w \in Slots :
       LET r == workers[w] IN
       /\ FailedWith(r, ExcConversion) => TempOf(r) # Partial
       /\ r.staged # Partial

(***************************************************************************)
(* C11.  A wait that reaches its ceiling while the job is still running    *)
(* ends the run with the timeout error; the run never looks at the outcome *)
(* of the job afterwards, even when the job succeeds later.                *)
(***************************************************************************)
\* The stages and calls that inspect the outcome of the remote job.
InspectedOutcome(r) ==
    \/ Emitted(r, Progress(75))
    \/ r.file_results # NoWorker.file_results
    \/ r.downloads > 0 \/ r.writes > 0
    \/ \E i \in 1..Len(r.stages) : r.stages[i] \in {"fetch", "write"}

\* C11: a run whose wait ended while the job was still running has ended with
\* the timeout error as its last notification after one wait, and has looked
\* up, downloaded and written nothing, whatever the job does afterwards; and
\* every wait that returns while the job is running ends the run that way.
C11_TimeoutAbandonsJob ==
    /\ [](\A w \in Slots :
            LET r == workers[w] IN
            Emitted(r, Error(ExcTimeout)) =>
               /\ Ended(r)
               /\ Last(r.emitted) = Error(ExcTimeout)
               /\ ProgressValues(r) = <<5, 33, 40, 42, 50, 55>>
               /\ r.waits = 1
               /\ ~InspectedOutcome(r))
    /\ [][\A w \in Slots :
            workers[w].pc = "wait" /\ workers[w].job = "running"
               /\ workers'[w] # workers[w]
            => \/ workers'[w] = [workers[w] EXCEPT !.job = workers'[w].job]
               \/ FailedWith(workers'[w], ExcTimeout) /\ Ended(workers'[w])]_vars

\* A run timed out and the job it had submitted succeeded afterwards.
C11_Witness ==
    \E w \in Slots :
       /\ FailedWith(workers[w], ExcTimeout)
       /\ workers[w].job = "succeeded"

(***************************************************************************)
(* C12.  While a Worker is suspended in the wait for the job the interface *)
(* thread is free: its actions stay enabled, and no stage of the pipeline  *)
(* is executed by the interface thread.                                    *)
(***************************************************************************)
\* The window in front takes the input of the user.
FrontWindowTakesInput ==
    CASE Top = "main" -> ENABLED BrowseFile /\ ENABLED OpenEnvDialog
      [] Top = "env" -> ENABLED DialogBrowseFile /\ ENABLED SaveSettings
                           /\ ENABLED CancelDialog
      [] Top = "saved" -> ENABLED SaveSettingsEnd
      [] Top = "warning" -> ENABLED CloseWarning
      [] Top = "done" -> ENABLED ProcessingFinishedEnd
      [] Top = "error" -> ENABLED ProcessingErrorEnd

GotResponse(r) == Emitted(r, Progress(75))

NeverFetched(r) ==
    /\ r.downloads = 0 /\ r.writes = 0
    /\ \A i \in 1..Len(r.stages) : r.stages[i] \notin {"fetch", "write"}
    /\ ~Emitted(r, Progress(90)) /\ ~Emitted(r, Progress(100))

\* C13: once a run has looked up a response that holds no entry, or an empty
\* one, for its input, the run has ended with the no-results error as its only
\* terminal notification, has downloaded and written nothing, and has submitted
\* the job exactly once.
C13_NoResultsIsTerminal ==
    \A w \in Slots :
       LET r == workers[w] IN
       GotResponse(r) /\ r.file_results.entry \in {"missing", "empty"} =>
          /\ r.submits = 1 /\ r.waits = 1
          /\ NeverFetched(r)
          /\ r.pc \in {"lookup", "returning", "done"}
          /\ Ended(r) => /\ Last(r.emitted) = Error(MsgNoResults)
                         /\ Terminals(r) = 1

\* A run whose job succeeded with an empty entry ended with the no-results
\* error.
C13_Witness ==
    \E w \in Slots :
       /\ FailedWith(workers[w], MsgNoResults)
       /\ workers[w].job = "succeeded"
       /\ workers[w].file_results.entry = "empty"

(***************************************************************************)
(* C14.  An output address that is not of the form gs://bucket/object ends *)
(* the run with the malformed-output-URI error before any download or      *)
(* transcript write.                                                       *)
(***************************************************************************)
\* uri is "gs://", a bucket name of at least one character without "/", a
\* "/", and an object name.
HasBucketObjectShape(uri) ==
    \E n \in 1..Len(uri) :
       /\ Len(uri) >= 5 + n + 1
       /\ SubSeq(uri, 1, 5) = <<"g", "s", ":", "/", "/">>
       /\ \A i \in 6..(5 + n) : uri[i] # "/"
       /\ uri[5 + n + 1] = "/"

\* C14: once a run has looked up an entry whose address lacks the bucket/object
\* shape, the run has ended with the malformed-output-URI error as its only
\* terminal notification and has downloaded and written nothing.
C14_MalformedUriIsTerminal ==
    \A w \in Slots :
       LET r == workers[w] IN
       /\ GotResponse(r) /\ r.file_results.entry = "present"
            /\ ~HasBucketObjectShape(r.file_results.uri) =>
             /\ NeverFetched(r)
             /\ r.pc \in {"lookup", "returning", "done"}
             /\ Ended(r) => /\ Last(r.emitted) = Error(MsgOutputUri)
                            /\ Terminals(r) = 1
       /\ r.downloads > 0 => HasBucketObjectShape(r.file_results.uri)

\* A run whose entry carried an address without an object ended with the
\* malformed-output-URI error.
C14_Witness ==
    \E w \in Slots :
       /\ FailedWith(workers[w], MsgOutputUri)
       /\ workers[w].file_results.uri = <<"g", "s", ":", "/", "/", "b">>

(***************************************************************************)
(* C15.  The transcript file a run writes holds, for each segment of the   *)
(* results document in order, the text of its alternative 0 followed by    *)
(* one newline, and nothing else.                                          *)
(***************************************************************************)
EverySegmentHasAlternative(doc) == \A i \in 1..Len(doc) : Len(doc[i]) >= 1

\* The first alternatives of the segments, each with its newline, from the last
\* segment backwards.
RECURSIVE FirstAlternatives(_)
FirstAlternatives(doc) ==
    IF Len(doc) = 0 THEN ""
    ELSE FirstAlternatives(SubSeq(doc, 1, Len(doc) - 1)) \o doc[Len(doc)][1] \o "\n"

\* C15: after a run has written its transcript from a document whose segments
\* all have an alternative, the output file holds exactly the first
\* alternatives in order, each followed by a newline, whatever the file held
\* before: "hello\nworld\n" for hello, world and "" for no segment.
C15_TranscriptIsFirstAlternatives ==
    \A w \in Slots :
       LET r == workers[w]
           written == files[OutPath(r.input_file.base)]
       IN
       r.writes > 0 /\ EverySegmentHasAlternative(r.doc) =>
          /\ r.writes = 1
          /\ written = FirstAlternatives(r.doc)
          /\ r.doc = <<>> => written = ""
          /\ r.doc = << <<"hello", "hullo">>, <<"world">> >> => written = "hello\nworld\n"

\* A run wrote the transcript of the segments hello (with a second alternative
\* hullo) and world.
C15_Witness ==
    \E w \in Slots :
       /\ workers[w].writes = 1
       /\ workers[w].doc = << <<"hello", "hullo">>, <<"world">> >>
       /\ files[OutPath(workers[w].input_file.base)] = "hello\nworld\n"

(***************************************************************************)
(* C16.  After the interface has handled the failure of a run the trigger  *)
(* is enabled and the progress shown is 0, and no progress notification of *)
(* that run is left to raise it.                                           *)
(***************************************************************************)
QueuedFrom(w) == SelectSeq(queue, LAMBDA e : e.w = w)

\* processing_error has run to its end for the failure of the run in slot w.
ErrorHandled(w) ==
    /\ Failed(workers[w])
    /\ QueuedFrom(w) = <<>> \/ Last(QueuedFrom(w)).kind # "error"
    /\ \A i \in 1..Len(modal) : modal[i] # "error"

\* C16: from the end of processing_error for a failed run until the next run
\* starts, the process button is enabled, the progress bar shows 0 and no
\* notification of the failed run is queued, whatever the failure and however
\* many ticks the run had emitted.
C16_ErrorResetsInterface ==
    \A w \in Slots :
       ErrorHandled(w) =>
          /\ process_button
          /\ progress_bar = 0
          /\ QueuedFrom(w) = <<>>

\* The failure of a run that had emitted every tick up to 90 has been handled.
C16_Witness ==
    \E w \in Slots :
       /\ ErrorHandled(w)
       /\ FailedWith(workers[w], ExcWrite)
       /\ Emitted(workers[w], Progress(90))
       /\ progress_bar = 0

(***************************************************************************)
(* C17.  The upload goes to the input container of the configuration and   *)
(* the job writes to its output container; a run whose configuration lacks *)
(* either fails with the missing-configuration error before any upload.    *)
(***************************************************************************)
Unset(value) == value \in {None, ""}

\* C17: every upload targets the container named by GCS_INPUT_BUCKET, every
\* output address the container named by GCS_OUTPUT_BUCKET, and a run that
\* passes its configuration check while either of them is unset or empty ends
\* there with the missing-configuration error.
C17_ConfiguredContainersUsed ==
    [][\A w \in Slots :
         LET r == workers[w]
             q == workers'[w]
         IN
         /\ q.uploads = r.uploads + 1 => q.input_bucket = environ[InKey]
         /\ r.pc = "output" /\ q.pc = "build" => q.output_bucket = environ[OutKey]
         /\ r.pc = "credentials" /\ q.pc # "credentials" /\ ~Failed(q) =>
               ~Unset(environ[InKey]) /\ ~Unset(environ[OutKey])]_vars

(***************************************************************************)
(* C18.  A results document with a segment that has no alternative ends    *)
(* the run in failure: nothing is written, not even the text of the        *)
(* segments before it, and the ticks 90 and 100 are not emitted.           *)
(***************************************************************************)
SomeSegmentWithoutAlternative(doc) == \E i \in 1..Len(doc) : Len(doc[i]) = 0

\* C18: a run that parsed a document with a segment without alternatives has
\* ended with an error as its only terminal notification, the one of the
\* failed indexing, after the ticks up to 75, and has written nothing.
C18_EmptySegmentFailsRun ==
    \A w \in Slots :
       LET r == workers[w] IN
       SomeSegmentWithoutAlternative(r.doc) =>
          /\ Ended(r)
          /\ Terminals(r) = 1
          /\ Last(r.emitted) = Error(ExcIndex)
          /\ ProgressValues(r) = <<5, 33, 40, 42, 50, 55, 75>>
          /\ r.writes = 0
          /\ r.transcript = ""
          /\ \A i \in 1..Len(r.stages) : r.stages[i] # "write"

\* A run downloaded the document [hello], [] and failed; the output file does
\* not hold the text of the first segment.
C18_Witness ==
    \E w \in Slots :
       /\ workers[w].doc = << <<"hello">>, <<>> >>
       /\ workers[w].downloads = 1
       /\ Failed(workers[w])
       /\ files[OutPath(workers[w].input_file.base)] # "hello\n"

(***************************************************************************)
(* C19.  A run that ends with a failure notification has not written the   *)
(* transcript file and has not emitted the tick 100: after the write and   *)
(* the tick 100 the only terminal notification left is success, also when  *)
(* the removal of the temporary file fails.                                *)
(***************************************************************************)
\* C19: no run has both emitted an error and either written its transcript or
\* emitted the tick 100.
C19_FailureMeansNothingWritten ==
    \A w \in Slots :
       LET r == workers[w] IN
       Failed(r) => r.writes = 0 /\ ~Emitted(r, Progress(100))

(***************************************************************************)
(* C20.  When start_processing replaces MainWindow.worker, the thread of   *)
(* the Worker stored before has left run(): no two Worker threads execute  *)
(* at the same time, under every interleaving of the Worker thread with    *)
(* the interface thread.                                                   *)
(***************************************************************************)
\* The Worker threads that are inside run().
ThreadsInRun == Cardinality({w \in Slots : InRun(w)}) + leaving

\* C20: at most one Worker thread is inside run() in every state, and every
\* step that creates a Worker finds the thread of the Worker stored in
\* MainWindow.worker outside run().
C20_OneWorkerThreadAtATime ==
    /\ [](ThreadsInRun <= 1)
    /\ [][\A w \in Slots :
            workers'[w].pc = "start" /\ workers[w].pc # "start" =>
               worker = 0 \/ ~InRun(worker)]_vars

====
